---- MODULE Spec2Model ----
(***************************************************************************)
(* The zkShuffle state machine (packages/contracts/contracts/shuffle/      *)
(* shuffle.sol) as a state machine over the contract's storage.            *)
(*                                                                         *)
(* Scaling.  The contract works in the 254-bit Baby Jubjub field with a   *)
(* 52-card deck.  The model keeps every formula of the code but runs it    *)
(* over the prime field of Q = 37 with the twisted Edwards curve           *)
(* 9 x^2 + y^2 = 1 + 5 x^2 y^2,   which like Baby Jubjub has a square A,   *)
(* a non-square D = A - 4 and a group of order 8 * r with r prime (r = 5), *)
(* and over a deck of NumCards = 2 cards.                                  *)
(***************************************************************************)
EXTENDS Integers, Sequences, FiniteSets, TLC

(***************************************************************************)
(* Program constants (scaled) and the bounds of the model.                 *)
(***************************************************************************)
INVALID_CARD_INDEX == 999999
Q == 37
A == 9
D == 5
NumCards == 2

\* setGameSettings is called with numPlayers_ in 0..MaxPlayers.
MaxPlayers == 2
\* At most MaxRegs register calls are accepted in a run, over all games.
MaxRegs == 2
\* At most MaxSetups setGameSettings calls are accepted in a run, over all games.
MaxSetups == 2

GameIds  == {0, 1}
Accounts == {"p1", "p2"}
Owner    == "owner"
GameC    == "gameContract"
Eoa      == "eoa"
NoAddr   == "0x0"
Senders  == {Owner, GameC, Eoa}

CardIdx  == 0 .. (NumCards - 1)

(***************************************************************************)
(* uint256 helpers.                                                        *)
(***************************************************************************)
RECURSIVE Pow2(_)
Pow2(n) == IF n = 0 THEN 1 ELSE 2 * Pow2(n - 1)

\* (v & (1 << i)) >> i
Bit(v, i) == (v \div Pow2(i)) % 2

\* v | (1 << i)
SetBit(v, i) == IF Bit(v, i) = 1 THEN v ELSE v + Pow2(i)

mulmod(a, b, m) == (a * b) % m
addmod(a, b, m) == (a + b) % m

submod(a, b, m) ==
    LET aNN == IF a <= b THEN a + m ELSE a
    IN  addmod(aNN - b, 0, m)

RECURSIVE expmod(_, _, _)
expmod(b, e, m) ==
    IF e = 0 THEN 1 % m
    ELSE IF e % 2 = 1 THEN mulmod(b % m, expmod(b, e - 1, m), m)
    ELSE LET h == expmod(b, e \div 2, m) IN mulmod(h, h, m)

\* inverse(a) = expmod(a, Q - 2, Q), tabulated over the field.
InverseTable == [a \in 0 .. (Q - 1) |-> expmod(a, Q - 2, Q)]
inverse(a) == InverseTable[a]

(***************************************************************************)
(* CurveBabyJubJub.                                                        *)
(***************************************************************************)
isOnCurve(x, y) ==
    LET xSq == mulmod(x, x, Q)
        ySq == mulmod(y, y, Q)
        lhs == addmod(mulmod(A, xSq, Q), ySq, Q)
        rhs == addmod(1, mulmod(mulmod(D, xSq, Q), ySq, Q), Q)
    IN  submod(lhs, rhs, Q) = 0

\* An addition whose y3 numerator leaves out the factor A.
pointAddNoA(x1, y1, x2, y2) ==
    IF x1 = 0 /\ y1 = 0 THEN <<x2, y2>>
    ELSE IF x2 = 0 /\ y1 = 0 THEN <<x1, y1>>
    ELSE LET x1x2      == mulmod(x1, x2, Q)
             y1y2      == mulmod(y1, y2, Q)
             dx1x2y1y2 == mulmod(D, mulmod(x1x2, y1y2, Q), Q)
             x3Num     == addmod(mulmod(x1, y2, Q), mulmod(y1, x2, Q), Q)
             y3Num     == submod(y1y2, x1x2, Q)
         IN  << mulmod(x3Num, inverse(addmod(1, dx1x2y1y2, Q)), Q),
                mulmod(y3Num, inverse(submod(1, dx1x2y1y2, Q)), Q) >>

pointAdd(x1, y1, x2, y2) ==
    IF x1 = 0 /\ y1 = 0 THEN <<x2, y2>>
    ELSE IF x2 = 0 /\ y1 = 0 THEN <<x1, y1>>
    ELSE LET x1x2      == mulmod(x1, x2, Q)
             y1y2      == mulmod(y1, y2, Q)
             dx1x2y1y2 == mulmod(D, mulmod(x1x2, y1y2, Q), Q)
             x3Num     == addmod(mulmod(x1, y2, Q), mulmod(y1, x2, Q), Q)
             y3Num     == submod(y1y2, mulmod(A, x1x2, Q), Q)
         IN  << mulmod(x3Num, inverse(addmod(1, dx1x2y1y2, Q)), Q),
                mulmod(y3Num, inverse(submod(1, dx1x2y1y2, Q)), Q) >>

pointMul(x1, y1, d) ==
    LET RECURSIVE loop(_, _, _)
        loop(remaining, p, acc) ==
            IF remaining = 0 THEN acc
            ELSE LET acc1 == IF remaining % 2 # 0
                             THEN pointAdd(acc[1], acc[2], p[1], p[2])
                             ELSE acc
                 IN  loop(remaining \div 2, pointAdd(p[1], p[2], p[1], p[2]), acc1)
    IN  loop(d, <<x1, y1>>, <<0, 0>>)

(***************************************************************************)
(* The group the proofs speak about (ElGamal over the curve).  Points are  *)
(* pairs <<x, y>>; the neutral element of the twisted Edwards curve is     *)
(* <<0, 1>>.                                                               *)
(***************************************************************************)
Fq       == 0 .. (Q - 1)
CurvePts == {p \in Fq \X Fq : isOnCurve(p[1], p[2])}
Neutral  == <<0, 1>>
Base8    == <<9, 35>>

Add(p, q) == pointAdd(p[1], p[2], q[1], q[2])
Neg(p)    == <<(Q - p[1]) % Q, p[2]>>
Sub(p, q) == Add(p, Neg(q))

RECURSIVE Mul(_, _)
Mul(p, k) == IF k = 0 THEN Neutral ELSE Add(Mul(p, k - 1), p)

\* Order of the prime-order subgroup generated by Base8 on the scaled curve.
Order == CHOOSE k \in 1 .. (2 * Q) :
            /\ Mul(Base8, k) = Neutral
            /\ \A h \in 1 .. (k - 1) : Mul(Base8, h) # Neutral

\* A point of the model that is not on the curve.
OffCurve == <<1, 1>>

\* Key pairs of the accounts: sk stays with the player, pk = sk * Base8.
SkOf(a) == IF a = "p1" THEN 1 ELSE 2
PkOf(a) == Mul(Base8, SkOf(a))

(***************************************************************************)
(* Decks.  A Deck holds the x-coordinates X0[i], X1[i] of the two points   *)
(* of each ciphertext and two bit vectors Selector[0], Selector[1] with    *)
(* the sign of the y-coordinates (fixed-size arrays, indexed from 0).      *)
(***************************************************************************)
ZeroDeck == [X0 |-> [i \in CardIdx |-> 0], X1 |-> [i \in CardIdx |-> 0],
             Selector |-> <<0, 0>>]
ZeroCard == [X0 |-> 0, Y0 |-> 0, X1 |-> 0, Y1 |-> 0]
ZeroCardDeal == [record |-> [i \in CardIdx |-> 0], cards |-> [i \in CardIdx |-> ZeroCard]]

\* The largest delta decompressEC accepts: (Q - 1) / 2.
HalfQ == (Q - 1) \div 2

\* Sign bit of a y-coordinate and the delta that goes with it.
SelOf(y)   == IF y <= HalfQ THEN 1 ELSE 0
DeltaOf(y) == IF y <= HalfQ THEN y ELSE Q - y

\* The bit vector with bit i = b[i].
RECURSIVE PackBits(_, _)
PackBits(b, n) == IF n = 0 THEN 0 ELSE PackBits(b, n - 1) + b[n - 1] * Pow2(n - 1)

\* The card points of the initial deck: the table of X1 values of initDeck is
\* the x-coordinates of NumCards distinct points of the subgroup of Base8.
CardPoint(i) == Mul(Base8, i + 1)

InitDeckValue ==
    [X0 |-> [i \in CardIdx |-> 0],
     X1 |-> [i \in CardIdx |-> CardPoint(i)[1]],
     Selector |-> << Pow2(NumCards) - 1,
                     PackBits([i \in CardIdx |-> SelOf(CardPoint(i)[2])], NumCards) >>]

(***************************************************************************)
(* Client side (proof.ts, utilities): decompression of a deck read from    *)
(* the contract, the shuffle-encrypt plaintext computation and the         *)
(* decryption share.                                                       *)
(***************************************************************************)
\* ecX2Delta: the canonical y <= (Q-1)/2 with (x, y) on the curve (0 if none).
DeltaTable ==
    [x \in Fq |-> IF \E dl \in 0 .. HalfQ : isOnCurve(x, dl)
                  THEN CHOOSE dl \in 0 .. HalfQ : isOnCurve(x, dl)
                  ELSE 0]
ecX2Delta(x) == DeltaTable[x]

\* The y-coordinate a compressed coordinate (x, selector bit) stands for.
RecoverY(x, sel) == IF sel = 1 THEN ecX2Delta(x) ELSE (Q - ecX2Delta(x)) % Q

\* prepareDecryptData: <<X0, Y0, X1, Y1>> of card i of a compressed deck.
prepareDecryptData(deck, i) ==
    << deck.X0[i], RecoverY(deck.X0[i], Bit(deck.Selector[1], i)),
       deck.X1[i], RecoverY(deck.X1[i], Bit(deck.Selector[2], i)) >>

\* Whether every compressed coordinate of the deck is the x of a curve point.
DeckOnCurve(deck) ==
    \A i \in CardIdx :
        LET Y == prepareDecryptData(deck, i)
        IN  isOnCurve(Y[1], Y[2]) /\ isOnCurve(Y[3], Y[4])

\* Permutations of the card slots and the randomness vectors of a shuffle.
IdPerm == [i \in CardIdx |-> i]
Perms == {f \in [CardIdx -> CardIdx] : \A i, j \in CardIdx : f[i] = f[j] => i = j}
RVecs == {[j \in CardIdx |-> 1 + (j % (Order - 1))]}

\* shuffleEncryptV2Plaintext: V[j] = U[perm[j]] + R[j] * (Base8, pk), recompressed.
shuffleEncryptV2Plaintext(deck, pk, perm, R) ==
    LET U(i)  == prepareDecryptData(deck, i)
        c0(j) == Add(<<U(perm[j])[1], U(perm[j])[2]>>, Mul(Base8, R[j]))
        c1(j) == Add(<<U(perm[j])[3], U(perm[j])[4]>>, Mul(pk, R[j]))
    IN  [X0 |-> [j \in CardIdx |-> c0(j)[1]],
         X1 |-> [j \in CardIdx |-> c1(j)[1]],
         Selector |-> << PackBits([j \in CardIdx |-> SelOf(c0(j)[2])], NumCards),
                         PackBits([j \in CardIdx |-> SelOf(c1(j)[2])], NumCards) >>]

\* The decryption share of the decrypt circuit: out = c1 - sk * c0.
DecryptShare(Y, sk) == Sub(<<Y[3], Y[4]>>, Mul(<<Y[1], Y[2]>>, sk))

(***************************************************************************)
(* Proofs.  A Groth16 proof is modelled by the statement (the public       *)
(* signals) it was generated for; the prover only produces proofs of true  *)
(* statements, and the verifier accepts a proof exactly for the public     *)
(* inputs it was generated for.  A verifier that does not accept reverts,  *)
(* which reverts the whole call (Pairing.InvalidProof).                    *)
(***************************************************************************)
JunkProof == [ok |-> FALSE, stmt |-> <<>>]
Prove(stmt) == [ok |-> TRUE, stmt |-> stmt]
verifyProof(proof, input) == proof.ok /\ proof.stmt = input

(***************************************************************************)
(* Storage of the Shuffle contract.                                        *)
(***************************************************************************)
VARIABLES
    gameContract,    \* address gameContract
    numPlayers,      \* mapping gameId => number of players
    decks,           \* mapping gameId => Deck
    initialDeck,     \* Deck initialDeck
    cardDeals,       \* mapping gameId => CardDeal (record, cards)
    playerAddr,      \* playerInfos[gameId].playerAddr
    playerPk,        \* playerInfos[gameId].playerPk (x, y of player 0, x, y of player 1, ..)
    aggregatedPk,    \* playerInfos[gameId].aggregatedPk
    playerIndexes,   \* mapping gameId => index of the player to act
    states,          \* mapping gameId => State
    \* History of the run (not storage).
    setups,          \* per game: the number of setGameSettings calls accepted
    shuffleLog,      \* per game: the shuffles accepted so far
    dealLog,         \* the deals accepted so far
    lastCall,        \* the last external call and how it ended
    \* The PlayerTurn events of the chain and a client that polls them (SDK).
    blocks,          \* the mined blocks: blocks[b] is the sequence of events of block b
    poller,          \* the polling client: its gameId, playerIndex and nextBlock
    delivered        \* the events checkPlayerTurn has returned to it, in order

storage == <<gameContract, numPlayers, decks, initialDeck, cardDeals, playerAddr,
             playerPk, aggregatedPk, playerIndexes, states>>
history == <<setups, shuffleLog, dealLog>>
sdk     == <<blocks, poller, delivered>>
vars    == <<gameContract, numPlayers, decks, initialDeck, cardDeals, playerAddr,
             playerPk, aggregatedPk, playerIndexes, states,
             setups, shuffleLog, dealLog, lastCall, blocks, poller, delivered>>

\* enum State: the zero value of the enum is Registration.
Registration  == "Registration"
ShufflingDeck == "ShufflingDeck"
DealingCard   == "DealingCard"

Ok == "ok"
NoCall == [op |-> "none", res |-> Ok]

\* What is kept of a call: of an accepted call its arguments, of a reverted call
\* the function and the revert reason.
Outcome(op, call, res) == IF res = Ok THEN call ELSE [op |-> op, res |-> res]

InitContract ==
    /\ gameContract  = NoAddr
    /\ numPlayers    = [g \in GameIds |-> 0]
    /\ decks         = [g \in GameIds |-> ZeroDeck]
    /\ initialDeck   = ZeroDeck
    /\ cardDeals     = [g \in GameIds |-> ZeroCardDeal]
    /\ playerAddr    = [g \in GameIds |-> <<>>]
    /\ playerPk      = [g \in GameIds |-> <<>>]
    /\ aggregatedPk  = [g \in GameIds |-> <<0, 0>>]
    /\ playerIndexes = [g \in GameIds |-> 0]
    /\ states        = [g \in GameIds |-> Registration]
    /\ setups        = [g \in GameIds |-> 0]
    /\ shuffleLog    = [g \in GameIds |-> <<>>]
    /\ dealLog       = {}
    /\ lastCall      = NoCall

\* No block has been mined and no client polls.
Init ==
    /\ InitContract
    /\ blocks    = <<>>
    /\ poller    = [gameId |-> 0, playerIndex |-> 0, nextBlock |-> 0]
    /\ delivered = <<>>

\* An access check that lets every caller through.
onlyGameContractAnyone(sender) == TRUE

\* modifier onlyGameContract
onlyGameContract(sender) == gameContract = sender

\* A phase check that only excludes the registration.
inDealingPhaseOrShuffle(gameId) == states[gameId] # Registration

\* modifier inDealingPhase
inDealingPhase(gameId) == states[gameId] = DealingCard

(***************************************************************************)
(* setGameContract (onlyOwner) and setGameSettings (onlyGameContract).     *)
(***************************************************************************)
setGameContract(sender, gameContract_) ==
    LET res == IF sender = Owner THEN Ok ELSE "Ownable: caller is not the owner"
    IN  /\ gameContract' = IF res = Ok THEN gameContract_ ELSE gameContract
        /\ lastCall' = Outcome("setGameContract", [op |-> "setGameContract", sender |-> sender, res |-> res], res)
        /\ UNCHANGED <<numPlayers, decks, initialDeck, cardDeals, playerAddr, playerPk,
                       aggregatedPk, playerIndexes, states, history>>

setGameSettings(sender, numPlayers_, gameId) ==
    LET res == IF onlyGameContract(sender) THEN Ok ELSE "Caller is not game contract"
    IN  /\ lastCall' = Outcome("setGameSettings", [op |-> "setGameSettings", sender |-> sender,
                                gameId |-> gameId, numPlayers |-> numPlayers_,
                                res |-> res], res)
        /\ IF res = Ok
           THEN /\ numPlayers'    = [numPlayers EXCEPT ![gameId] = numPlayers_]
                /\ playerIndexes' = [playerIndexes EXCEPT ![gameId] = 0]
                /\ states'        = [states EXCEPT ![gameId] = Registration]
                /\ setups'        = [setups EXCEPT ![gameId] = @ + 1]
                /\ UNCHANGED <<gameContract, decks, initialDeck, cardDeals, playerAddr,
                               playerPk, aggregatedPk, shuffleLog, dealLog>>
           ELSE UNCHANGED <<storage, history>>

(***************************************************************************)
(* register.                                                               *)
(***************************************************************************)
\* The number of players registered so far, over all games (bounds the run).
RECURSIVE SumLen(_)
SumLen(G) == IF G = {} THEN 0
             ELSE LET g == CHOOSE x \in G : TRUE
                  IN  Len(playerAddr[g]) + SumLen(G \ {g})
TotalRegs == SumLen(GameIds)

\* The aggregation loop of register: left fold of pointAdd over the first n keys.
RECURSIVE aggregate(_, _)
aggregate(pks, n) ==
    IF n <= 1 THEN <<pks[1], pks[2]>>
    ELSE LET acc == aggregate(pks, n - 1)
         IN  pointAdd(acc[1], acc[2], pks[2 * (n - 1) + 1], pks[2 * (n - 1) + 2])

\* The requires of register without the check of the public key.
registerCheckNoCurve(sender, pk, gameId) ==
    IF ~onlyGameContract(sender) THEN "Caller is not game contract"
    ELSE IF states[gameId] # Registration THEN "Not in register phase"
    ELSE Ok

\* The requires of register, in order; Ok when all pass.
registerCheck(sender, pk, gameId) ==
    IF ~onlyGameContract(sender) THEN "Caller is not game contract"
    ELSE IF states[gameId] # Registration THEN "Not in register phase"
    ELSE IF ~isOnCurve(pk[1], pk[2]) THEN "Invalid public key"
    ELSE Ok

\* Whether the register that makes playerIndexes = idx closes the registration.
registrationComplete(idx, gameId) == idx = numPlayers[gameId]

register(sender, permanentAccount, pk, gameId) ==
    LET res   == registerCheck(sender, pk, gameId)
        addrs == Append(playerAddr[gameId], permanentAccount)
        pks   == Append(Append(playerPk[gameId], pk[1]), pk[2])
        idx   == playerIndexes[gameId] + 1
    IN  /\ lastCall' = Outcome("register", [op |-> "register", sender |-> sender, gameId |-> gameId,
                                account |-> permanentAccount, pk |-> pk, res |-> res], res)
        /\ IF res = Ok
           THEN /\ playerAddr' = [playerAddr EXCEPT ![gameId] = addrs]
                /\ playerPk'   = [playerPk EXCEPT ![gameId] = pks]
                /\ IF registrationComplete(idx, gameId)
                   THEN /\ states'        = [states EXCEPT ![gameId] = ShufflingDeck]
                        /\ playerIndexes' = [playerIndexes EXCEPT ![gameId] = 0]
                        /\ aggregatedPk'  = [aggregatedPk EXCEPT
                                               ![gameId] = aggregate(pks, numPlayers[gameId])]
                        \* initDeck(gameId)
                        /\ IF gameId = 0
                           THEN initialDeck' = InitDeckValue /\ UNCHANGED decks
                           ELSE decks' = [decks EXCEPT ![gameId] = InitDeckValue]
                                /\ UNCHANGED initialDeck
                   ELSE /\ playerIndexes' = [playerIndexes EXCEPT ![gameId] = idx]
                        /\ UNCHANGED <<states, aggregatedPk, decks, initialDeck>>
                /\ UNCHANGED <<gameContract, numPlayers, cardDeals, history>>
           ELSE UNCHANGED <<storage, history>>

(***************************************************************************)
(* shuffle.                                                                *)
(***************************************************************************)
\* The public signals the shuffle circuit emits for input deck U and output
\* deck V: nonce, pk, UX0, UX1, VX0, VX1, s_u, s_v.
shuffleSignals(nonce, pk, U, V) ==
    <<nonce, pk[1], pk[2]>>
    \o [i \in 1 .. NumCards |-> U.X0[i - 1]]
    \o [i \in 1 .. NumCards |-> U.X1[i - 1]]
    \o [i \in 1 .. NumCards |-> V.X0[i - 1]]
    \o [i \in 1 .. NumCards |-> V.X1[i - 1]]
    \o <<U.Selector[1], U.Selector[2], V.Selector[1], V.Selector[2]>>

\* prepareShuffleData: input[k] of the code is element k + 1 of the sequence; the
\* offsets 3, 55, 107, 159 and 211 of the 52-card deck are 3 + m * NumCards.
prepareShuffleData(nonce, shuffled, gameId) ==
    [n \in 1 .. (7 + 4 * NumCards) |->
        LET k == n - 1
        IN  IF k = 0 THEN nonce
            ELSE IF k = 1 THEN aggregatedPk[gameId][1]
            ELSE IF k = 2 THEN aggregatedPk[gameId][2]
            ELSE IF k < 3 + NumCards THEN decks[gameId].X0[k - 3]
            ELSE IF k < 3 + 2 * NumCards THEN decks[gameId].X1[k - (3 + NumCards)]
            ELSE IF k < 3 + 3 * NumCards THEN shuffled.X0[k - (3 + 2 * NumCards)]
            ELSE IF k < 3 + 4 * NumCards THEN shuffled.X1[k - (3 + 3 * NumCards)]
            ELSE IF k = 3 + 4 * NumCards THEN decks[gameId].Selector[1]
            ELSE IF k = 4 + 4 * NumCards THEN decks[gameId].Selector[2]
            ELSE IF k = 5 + 4 * NumCards THEN shuffled.Selector[1]
            ELSE shuffled.Selector[2]]

\* A turn check that lets every registered player through.
isTurnOfAnyRegistered(permanentAccount, gameId) ==
    \E k \in 1 .. Len(playerAddr[gameId]) : playerAddr[gameId][k] = permanentAccount

\* require(permanentAccount == playerAddr[playerIndexes[gameId]])
isTurnOf(permanentAccount, gameId) ==
    permanentAccount = playerAddr[gameId][playerIndexes[gameId] + 1]

\* A verification of the shuffle proof that is not bound to the public inputs.
shuffleVerifiedUnbound(proof, nonce, shuffled, gameId) == proof.ok

\* The call of the shuffle-encrypt verifier.
shuffleVerified(proof, nonce, shuffled, gameId) ==
    verifyProof(proof, prepareShuffleData(nonce, shuffled, gameId))

\* The checks of shuffle without the require of the shuffle phase.
shuffleCheckNoPhase(sender, permanentAccount, proof, nonce, shuffled, gameId) ==
    IF ~onlyGameContract(sender) THEN "Caller is not game contract"
    ELSE IF playerIndexes[gameId] >= Len(playerAddr[gameId]) THEN "Panic: index out of bounds"
    ELSE IF ~isTurnOf(permanentAccount, gameId) THEN "Not your turn yet"
    ELSE IF ~shuffleVerified(proof, nonce, shuffled, gameId) THEN "InvalidProof"
    ELSE Ok

\* The checks of shuffle, in order; Ok when all pass.
shuffleCheck(sender, permanentAccount, proof, nonce, shuffled, gameId) ==
    IF ~onlyGameContract(sender) THEN "Caller is not game contract"
    ELSE IF states[gameId] # ShufflingDeck THEN "Not in shuffle phase"
    ELSE IF playerIndexes[gameId] >= Len(playerAddr[gameId]) THEN "Panic: index out of bounds"
    ELSE IF ~isTurnOf(permanentAccount, gameId) THEN "Not your turn yet"
    ELSE IF ~shuffleVerified(proof, nonce, shuffled, gameId) THEN "InvalidProof"
    ELSE Ok

\* An update of the deck that leaves the second selector word as it was.
updateDeckKeepSelector(shuffled, gameId) ==
    [X0 |-> [i \in CardIdx |-> shuffled.X0[i]],
     X1 |-> [i \in CardIdx |-> shuffled.X1[i]],
     Selector |-> <<shuffled.Selector[1], decks[gameId].Selector[2]>>]

\* updateDeck: the deck of the game after the update.
updateDeck(shuffled, gameId) ==
    [X0 |-> [i \in CardIdx |-> shuffled.X0[i]],
     X1 |-> [i \in CardIdx |-> shuffled.X1[i]],
     Selector |-> <<shuffled.Selector[1], shuffled.Selector[2]>>]

shuffle(sender, permanentAccount, proof, nonce, shuffled, gameId) ==
    LET res == shuffleCheck(sender, permanentAccount, proof, nonce, shuffled, gameId)
        idx == playerIndexes[gameId] + 1
    IN  /\ lastCall' = Outcome("shuffle", [op |-> "shuffle", sender |-> sender, gameId |-> gameId,
                                account |-> permanentAccount, proof |-> proof,
                                nonce |-> nonce, deck |-> shuffled, res |-> res], res)
        /\ IF res = Ok
           THEN /\ decks' = [decks EXCEPT ![gameId] = updateDeck(shuffled, gameId)]
                /\ IF idx = numPlayers[gameId]
                   THEN /\ states' = [states EXCEPT ![gameId] = DealingCard]
                        /\ playerIndexes' = [playerIndexes EXCEPT ![gameId] = 0]
                   ELSE /\ playerIndexes' = [playerIndexes EXCEPT ![gameId] = idx]
                        /\ UNCHANGED states
                /\ shuffleLog' = [shuffleLog EXCEPT ![gameId] =
                                    Append(@, [account |-> permanentAccount,
                                               turn |-> playerIndexes[gameId],
                                               proof |-> proof])]
                /\ UNCHANGED <<gameContract, numPlayers, initialDeck, cardDeals, playerAddr,
                               playerPk, aggregatedPk, setups, dealLog>>
           ELSE UNCHANGED <<storage, history>>

(***************************************************************************)
(* deal.                                                                   *)
(***************************************************************************)
\* A decompression that does not check the range of delta.
decompressECNoRange(x, delta, selector) ==
    IF ~isOnCurve(x, delta) THEN [res |-> "Not on baby jubjub curve", y |-> 0]
    ELSE IF ~(selector = 0 \/ selector = 1) THEN [res |-> "Ill-formated selector", y |-> 0]
    ELSE IF selector = 1 THEN [res |-> Ok, y |-> delta]
    ELSE [res |-> Ok, y |-> Q - delta]

\* decompressEC: [res, y]; the three requires, then delta or Q - delta.
decompressEC(x, delta, selector) ==
    IF delta > HalfQ THEN [res |-> "Ill-formated delta", y |-> 0]
    ELSE IF ~isOnCurve(x, delta) THEN [res |-> "Not on baby jubjub curve", y |-> 0]
    ELSE IF ~(selector = 0 \/ selector = 1) THEN [res |-> "Ill-formated selector", y |-> 0]
    ELSE IF selector = 1 THEN [res |-> Ok, y |-> delta]
    ELSE [res |-> Ok, y |-> Q - delta]

decompressCard(cardIdx, delta, gameId) ==
    LET flag0 == Bit(decks[gameId].Selector[1], cardIdx)
        flag1 == Bit(decks[gameId].Selector[2], cardIdx)
        y0    == decompressEC(decks[gameId].X0[cardIdx], delta[1], flag0)
        y1    == decompressEC(decks[gameId].X1[cardIdx], delta[2], flag1)
    IN  IF y0.res # Ok THEN [res |-> y0.res, Y |-> <<0, 0>>]
        ELSE IF y1.res # Ok THEN [res |-> y1.res, Y |-> <<0, 0>>]
        ELSE [res |-> Ok, Y |-> <<y0.y, y1.y>>]

\* require(playerAddr[curPlayerIdx] == permanentAccount)
isPlayer(permanentAccount, curPlayerIdx, gameId) ==
    playerAddr[gameId][curPlayerIdx + 1] = permanentAccount

\* A double-deal check that masks with the index instead of the bit: record & j.
notDealtYetNoShift(cardIdx, curPlayerIdx, gameId) ==
    \A b \in 0 .. MaxRegs :
        ~(Bit(cardDeals[gameId].record[cardIdx], b) = 1 /\ Bit(curPlayerIdx, b) = 1)

\* require((record[cardIdx] & (1 << curPlayerIdx)) == 0)
notDealtYet(cardIdx, curPlayerIdx, gameId) ==
    Bit(cardDeals[gameId].record[cardIdx], curPlayerIdx) = 0

\* A verifier input that is rebuilt from the deck on every deal of the card.
cardBeforeVerifyFromDeck(cardIdx, initDelta, gameId) ==
    LET Y == decompressCard(cardIdx, initDelta, gameId).Y
    IN  [X0 |-> decks[gameId].X0[cardIdx], Y0 |-> Y[1],
         X1 |-> decks[gameId].X1[cardIdx], Y1 |-> Y[2]]

\* cards[cardIdx] as the verifier sees it: on the first deal of the card it is
\* written from the deck and the decompressed Y before the proof is verified.
cardBeforeVerify(cardIdx, initDelta, gameId) ==
    IF cardDeals[gameId].record[cardIdx] = 0
    THEN LET Y == decompressCard(cardIdx, initDelta, gameId).Y
         IN  [X0 |-> decks[gameId].X0[cardIdx], Y0 |-> Y[1],
              X1 |-> decks[gameId].X1[cardIdx], Y1 |-> Y[2]]
    ELSE cardDeals[gameId].cards[cardIdx]

\* The public inputs deal hands to the decrypt verifier.
decryptInput(cardIdx, curPlayerIdx, decryptedCard, initDelta, gameId) ==
    LET c == cardBeforeVerify(cardIdx, initDelta, gameId)
    IN  << decryptedCard[1], decryptedCard[2], c.X0, c.Y0, c.X1, c.Y1,
           playerPk[gameId][2 * curPlayerIdx + 1], playerPk[gameId][2 * curPlayerIdx + 2] >>

dealVerified(proof, cardIdx, curPlayerIdx, decryptedCard, initDelta, gameId) ==
    verifyProof(proof, decryptInput(cardIdx, curPlayerIdx, decryptedCard, initDelta, gameId))

\* The checks of deal, in order (modifiers first); Ok when all pass.
dealCheck(sender, permanentAccount, cardIdx, curPlayerIdx, proof, decryptedCard, initDelta, gameId) ==
    IF ~inDealingPhase(gameId)
    THEN "Contract must be in dealing phase to call this function"
    ELSE IF ~onlyGameContract(sender) THEN "Caller is not game contract"
    ELSE IF curPlayerIdx >= Len(playerAddr[gameId]) THEN "Panic: index out of bounds"
    ELSE IF ~isPlayer(permanentAccount, curPlayerIdx, gameId) THEN "not recognized player"
    ELSE IF ~notDealtYet(cardIdx, curPlayerIdx, gameId)
    THEN "detected double dealing the same card"
    ELSE IF /\ cardDeals[gameId].record[cardIdx] = 0
            /\ decompressCard(cardIdx, initDelta, gameId).res # Ok
    THEN decompressCard(cardIdx, initDelta, gameId).res
    ELSE IF ~dealVerified(proof, cardIdx, curPlayerIdx, decryptedCard, initDelta, gameId)
    THEN "InvalidProof"
    ELSE Ok

\* Writes of an accepted deal that overwrite the whole entry of the card with the
\* share, (X0, Y0) included.
dealWritesWholeCard(cardIdx, curPlayerIdx, decryptedCard, initDelta, gameId) ==
    [record |-> [cardDeals[gameId].record EXCEPT ![cardIdx] = SetBit(@, curPlayerIdx)],
     cards  |-> [cardDeals[gameId].cards EXCEPT
                    ![cardIdx] = [X0 |-> decryptedCard[1], Y0 |-> decryptedCard[2],
                                  X1 |-> decryptedCard[1], Y1 |-> decryptedCard[2]]]]

\* cardDeals[gameId] after the writes of an accepted deal.
dealWrites(cardIdx, curPlayerIdx, decryptedCard, initDelta, gameId) ==
    LET c == cardBeforeVerify(cardIdx, initDelta, gameId)
    IN  [record |-> [cardDeals[gameId].record EXCEPT
                        ![cardIdx] = SetBit(@, curPlayerIdx)],
         cards  |-> [cardDeals[gameId].cards EXCEPT
                        ![cardIdx] = [c EXCEPT !.X1 = decryptedCard[1],
                                               !.Y1 = decryptedCard[2]]]]

\* cardDeals[gameId] after the writes deal makes before it calls the verifier.
dealEarlyWrites(cardIdx, curPlayerIdx, decryptedCard, initDelta, gameId) ==
    [cardDeals[gameId] EXCEPT
        !.cards[cardIdx] = cardBeforeVerify(cardIdx, initDelta, gameId)]

\* A deal whose writes made before the verification survive a rejected proof.
dealStorageNoRollback(res, cardIdx, curPlayerIdx, decryptedCard, initDelta, gameId) ==
    IF res = Ok
    THEN dealWrites(cardIdx, curPlayerIdx, decryptedCard, initDelta, gameId)
    ELSE IF res = "InvalidProof"
    THEN dealEarlyWrites(cardIdx, curPlayerIdx, decryptedCard, initDelta, gameId)
    ELSE cardDeals[gameId]

\* cardDeals[gameId] after the call: the writes of an accepted deal; a revert (a
\* failed require or a verifier that does not accept) rolls every write back.
dealStorage(res, cardIdx, curPlayerIdx, decryptedCard, initDelta, gameId) ==
    IF res = Ok
    THEN dealWrites(cardIdx, curPlayerIdx, decryptedCard, initDelta, gameId)
    ELSE cardDeals[gameId]

deal(sender, permanentAccount, cardIdx, curPlayerIdx, proof, decryptedCard, initDelta, gameId) ==
    LET res == dealCheck(sender, permanentAccount, cardIdx, curPlayerIdx, proof,
                         decryptedCard, initDelta, gameId)
    IN  /\ lastCall' = Outcome("deal", [op |-> "deal", sender |-> sender, gameId |-> gameId,
                                account |-> permanentAccount, cardIdx |-> cardIdx,
                                playerIdx |-> curPlayerIdx, proof |-> proof,
                                decryptedCard |-> decryptedCard, res |-> res], res)
        /\ cardDeals' = [cardDeals EXCEPT ![gameId] =
                           dealStorage(res, cardIdx, curPlayerIdx, decryptedCard,
                                       initDelta, gameId)]
        /\ dealLog' = IF res = Ok
                      THEN dealLog \cup
                             {[gameId |-> gameId, cardIdx |-> cardIdx,
                               playerIdx |-> curPlayerIdx, account |-> permanentAccount,
                               pk |-> << playerPk[gameId][2 * curPlayerIdx + 1],
                                         playerPk[gameId][2 * curPlayerIdx + 2] >>]}
                      ELSE dealLog
        /\ UNCHANGED <<gameContract, numPlayers, decks, initialDeck, playerAddr,
                       playerPk, aggregatedPk, playerIndexes, states, setups, shuffleLog>>

\* search: [res, value].
search(cardIndex, gameId) ==
    IF cardDeals[gameId].record[cardIndex] # Pow2(numPlayers[gameId]) - 1
    THEN [res |-> "Card has not been fully decrypted", value |-> INVALID_CARD_INDEX]
    ELSE LET X1 == cardDeals[gameId].cards[cardIndex].X1
             hits == {i \in CardIdx : initialDeck.X1[i] = X1}
         IN  [res |-> Ok,
              value |-> IF hits = {} THEN INVALID_CARD_INDEX
                        ELSE CHOOSE i \in hits : \A k \in hits : i <= k]

\* A query of the aggregated key without the require of the state.
queryAggregatedPkNoRequire(gameId) == [res |-> Ok, value |-> aggregatedPk[gameId]]

\* queryAggregatedPk (view): [res, value].
queryAggregatedPk(gameId) ==
    IF states[gameId] = Registration
    THEN [res |-> "aggregated pk is not ready", value |-> <<0, 0>>]
    ELSE [res |-> Ok, value |-> aggregatedPk[gameId]]

\* queryDeck (view): [res, value].
queryDeck(gameId) ==
    IF states[gameId] = Registration
    THEN [res |-> "deck is not ready", value |-> ZeroDeck]
    ELSE [res |-> Ok, value |-> decks[gameId]]

(***************************************************************************)
(* The callers.  The game contract forwards the players' submissions; a    *)
(* player builds a submission from the state it reads (proof.ts), and may  *)
(* tamper with it before it is sent.                                       *)
(***************************************************************************)
Tuple4(c) == <<c.X0, c.Y0, c.X1, c.Y1>>

\* publicSignals.slice(from, to) and publicSignals[k], indexed from 0.
slice(publicSignals, from, to) == [i \in 0 .. (to - from - 1) |-> publicSignals[from + i + 1]]
at(publicSignals, k) == publicSignals[k + 1]

\* A submission that takes the selectors one place too early.
shuffleArgsSelectorShift(publicSignals) ==
    [X0 |-> slice(publicSignals, 3 + NumCards * 2, 3 + NumCards * 3),
     X1 |-> slice(publicSignals, 3 + NumCards * 3, 3 + NumCards * 4),
     Selector |-> << at(publicSignals, 4 + NumCards * 4),
                     at(publicSignals, 5 + NumCards * 4) >>]

\* The deck the client submits: shuffledX0, shuffledX1 and selector are cut out
\* of the public signals of the proof.
shuffleArgs(publicSignals) ==
    [X0 |-> slice(publicSignals, 3 + NumCards * 2, 3 + NumCards * 3),
     X1 |-> slice(publicSignals, 3 + NumCards * 3, 3 + NumCards * 4),
     Selector |-> << at(publicSignals, 5 + NumCards * 4),
                     at(publicSignals, 6 + NumCards * 4) >>]

\* The player's shuffle submission: the shuffled deck and its proof.
clientShuffle(gameId, perm, R) ==
    LET U  == decks[gameId]
        pk == aggregatedPk[gameId]
    IN  IF pk \in CurvePts /\ DeckOnCurve(U)
        THEN LET V == shuffleEncryptV2Plaintext(U, pk, perm, R)
                 publicSignals == shuffleSignals(0, pk, U, V)
             IN  [proof |-> Prove(publicSignals), deck |-> shuffleArgs(publicSignals)]
        ELSE [proof |-> JunkProof, deck |-> U]

\* The player's deal submission for a card: share, proof and initDelta.
clientDeal(account, gameId, cardIdx) ==
    LET first == cardDeals[gameId].record[cardIdx] = 0
        Y     == IF first THEN prepareDecryptData(decks[gameId], cardIdx)
                 ELSE Tuple4(cardDeals[gameId].cards[cardIdx])
    IN  IF isOnCurve(Y[1], Y[2]) /\ isOnCurve(Y[3], Y[4])
        THEN LET share == DecryptShare(Y, SkOf(account))
             IN  [proof |-> Prove(<<share[1], share[2]>> \o Y \o PkOf(account)),
                  share |-> share,
                  initDelta |-> IF first THEN <<ecX2Delta(Y[1]), ecX2Delta(Y[3])>>
                                ELSE <<0, 0>>]
        ELSE [proof |-> JunkProof, share |-> <<0, 0>>, initDelta |-> <<0, 0>>]

PlayerIdxs == 0 .. (MaxRegs - 1)

\* Two ways a caller can spoil initDelta: the other root Q - delta of the first
\* coordinate, and a second delta that is in range but not on the curve.
deltaHigh(initDelta) == <<Q - initDelta[1], initDelta[2]>>
deltaOff(initDelta)  == <<initDelta[1], (initDelta[2] + 1) % (HalfQ + 1)>>

SetGameContract ==
    \E sender \in {Owner, Eoa} : setGameContract(sender, GameC)

\* The number of setGameSettings calls accepted so far, over all games.
RECURSIVE SumSetups(_)
SumSetups(G) == IF G = {} THEN 0
                ELSE LET g == CHOOSE x \in G : TRUE
                     IN  setups[g] + SumSetups(G \ {g})
TotalSetups == SumSetups(GameIds)

SetGameSettings ==
    \E gameId \in GameIds, n \in 0 .. MaxPlayers :
        /\ TotalSetups < MaxSetups
        /\ setGameSettings(GameC, n, gameId)

Register ==
    \E gameId \in GameIds, a \in Accounts, onCurve \in BOOLEAN :
        /\ TotalRegs < MaxRegs
        /\ register(GameC, a, IF onCurve THEN PkOf(a) ELSE OffCurve, gameId)

Shuffle ==
    \E gameId \in GameIds, a \in Accounts, R \in RVecs,
       way \in (Perms \X {"none"}) \cup ({IdPerm} \X {"VX0", "proof"}) :
        LET perm   == way[1]
            tamper == way[2]
            sub == clientShuffle(gameId, perm, R)
            V   == IF tamper = "VX0"
                   THEN [sub.deck EXCEPT !.X0[NumCards - 1] = (@ + 1) % Q]
                   ELSE sub.deck
            pf  == IF tamper = "proof" THEN JunkProof ELSE sub.proof
        IN  shuffle(GameC, a, pf, 0, V, gameId)

Deal ==
    \E gameId \in GameIds, a \in Accounts, cardIdx \in CardIdx, j \in PlayerIdxs,
       tamper \in {"none", "share", "deltaHigh", "deltaOff"} :
        LET sub   == clientDeal(a, gameId, cardIdx)
            share == IF tamper = "share"
                     THEN <<(sub.share[1] + 1) % Q, sub.share[2]>>
                     ELSE sub.share
            initDelta == IF tamper = "deltaHigh" THEN deltaHigh(sub.initDelta)
                         ELSE IF tamper = "deltaOff" THEN deltaOff(sub.initDelta)
                         ELSE sub.initDelta
        IN  deal(GameC, a, cardIdx, j, sub.proof, share, initDelta, gameId)

\* The card a second client read before the deal of lastCall landed, and whether
\* the record it read was 0.  The accepted proof was verified against that same
\* card, so its public signals 2 .. 5 are the entry the second client read.
snapshotFirst == cardDeals[lastCall.gameId].record[lastCall.cardIdx] = Pow2(lastCall.playerIdx)
snapshotCard  == [k \in 1 .. 4 |-> at(lastCall.proof.stmt, k + 1)]

\* The deal submission of a client that read that snapshot: decrypt() takes the
\* compressed path when the record it read was 0, the uncompressed path otherwise.
staleDeal(account) ==
    LET Y == IF snapshotFirst
             THEN prepareDecryptData(decks[lastCall.gameId], lastCall.cardIdx)
             ELSE snapshotCard
    IN  IF isOnCurve(Y[1], Y[2]) /\ isOnCurve(Y[3], Y[4])
        THEN LET share == DecryptShare(Y, SkOf(account))
             IN  [proof |-> Prove(<<share[1], share[2]>> \o Y \o PkOf(account)),
                  share |-> share,
                  initDelta |-> IF snapshotFirst THEN <<ecX2Delta(Y[1]), ecX2Delta(Y[3])>>
                                ELSE <<0, 0>>]
        ELSE [proof |-> JunkProof, share |-> <<0, 0>>, initDelta |-> <<0, 0>>]

\* Two clients read the same card and both submit: the deal of the first has
\* just been accepted, and the deal the second built from what it read arrives.
StaleDeal ==
    /\ lastCall.op = "deal"
    /\ \E a \in Accounts, j \in PlayerIdxs :
          LET sub == staleDeal(a)
          IN  deal(GameC, a, lastCall.cardIdx, j, sub.proof, sub.share, sub.initDelta,
                   lastCall.gameId)

\* A shuffle submission that was accepted before in the game is sent again, by any
\* account: the proof, and the deck cut out of its public signals.
ReplayShuffle ==
    \E gameId \in GameIds, a \in Accounts :
        \E k \in 1 .. Len(shuffleLog[gameId]) :
            LET e == shuffleLog[gameId][k]
            IN  shuffle(GameC, a, e.proof, 0, shuffleArgs(e.proof.stmt), gameId)

\* A call of a state-changing function by an address that is not the game contract.
\* The arguments are those of an honest submission: only the caller is wrong.
ForeignCall ==
    \/ \E gameId \in GameIds :
          TotalSetups < MaxSetups /\ setGameSettings(Eoa, 1, gameId)
    \/ \E gameId \in GameIds, a \in Accounts :
          register(Eoa, a, PkOf(a), gameId)
    \/ \E gameId \in GameIds, a \in Accounts :
          LET sub == clientShuffle(gameId, IdPerm, CHOOSE R \in RVecs : TRUE)
          IN  shuffle(Eoa, a, sub.proof, 0, sub.deck, gameId)
    \/ \E gameId \in GameIds, a \in Accounts, cardIdx \in CardIdx, j \in PlayerIdxs :
          LET sub == clientDeal(a, gameId, cardIdx)
          IN  deal(Eoa, a, cardIdx, j, sub.proof, sub.share, sub.initDelta, gameId)

\* A reverted call changes nothing in storage: the runs that go on after it are
\* the runs without it.  So a run of the model ends with its first reverted call,
\* and every state a call reverts in is still reached by the accepted calls alone.
Running == lastCall.res = Ok

Next ==
    \/ Running /\ SetGameContract /\ UNCHANGED sdk
    \/ Running /\ SetGameSettings /\ UNCHANGED sdk
    \/ Running /\ Register /\ UNCHANGED sdk
    \/ Running /\ Shuffle /\ UNCHANGED sdk
    \/ Running /\ ReplayShuffle /\ UNCHANGED sdk
    \/ Running /\ Deal /\ UNCHANGED sdk
    \/ Running /\ StaleDeal /\ UNCHANGED sdk
    \/ Running /\ ForeignCall /\ UNCHANGED sdk

Spec == Init /\ [][Next]_vars

(***************************************************************************)
(* The library CurveBabyJubJub on its own: a run of CurveSpec is one call   *)
(* of pointAdd (the library keeps no state between calls), recorded in      *)
(* lastCall with its arguments and the point it returns.  One argument      *)
(* ranges over all pairs of field elements, the other over the points of    *)
(* the curve and (0, 0).                                                    *)
(***************************************************************************)
\* The negative of a point as a caller computes it: (Q - x, y), not reduced.
neg(P) == <<Q - P[1], P[2]>>

FqPairs  == Fq \X Fq
AddendPts == CurvePts \cup {<<0, 0>>} \cup {neg(P) : P \in CurvePts}

PointAddCall ==
    /\ lastCall = NoCall
    /\ \E pq \in (FqPairs \X AddendPts) \cup (AddendPts \X FqPairs) :
        /\ lastCall' = [op |-> "pointAdd", res |-> Ok, p1 |-> pq[1], p2 |-> pq[2],
                        point |-> pointAdd(pq[1][1], pq[1][2], pq[2][1], pq[2][2])]
        /\ UNCHANGED <<storage, history, sdk>>

CurveNext == PointAddCall

CurveSpec == Init /\ [][CurveNext]_vars

(***************************************************************************)
(* The SDK's checkPlayerTurn on its own: blocks carrying PlayerTurn events *)
(* are mined, and a client polls for the events of its (gameId,            *)
(* playerIndex), feeding the returned nextBlock into its next call.  The   *)
(* events of a block become visible together, when the block is mined.     *)
(***************************************************************************)
NOT_TURN == -1

MaxBlocks == 2
MaxEventsPerBlock == 2

\* BaseState.Shuffle and BaseState.Deal, the states a turn is announced for.
TurnStates == {3, 4}
TurnEvents == [gameId : GameIds, playerIndex : PlayerIdxs, state : TurnStates]
BlockContents == UNION {[1 .. n -> TurnEvents] : n \in 0 .. MaxEventsPerBlock}

\* smc.queryFilter(filter, fromBlock): the events of the blocks fromBlock ..
\* latest, in emission order, each with its block number.
blockEvents(b) ==
    [k \in 1 .. Len(blocks[b]) |-> [blockNumber |-> b, logIndex |-> k, args |-> blocks[b][k]]]
RECURSIVE queryFrom(_)
queryFrom(b) == IF b > Len(blocks) THEN <<>> ELSE blockEvents(b) \o queryFrom(b + 1)
queryFilter(fromBlock) == queryFrom(IF fromBlock < 1 THEN 1 ELSE fromBlock)

\* The loop of checkPlayerTurn from event i on: nextBlock is set from every
\* event the loop visits, and the first matching event ends the call.
RECURSIVE turnLoop(_, _, _, _, _)
turnLoop(events, i, gameId, playerIndex, nextBlock) ==
    IF i > Len(events)
    THEN [state |-> NOT_TURN, nextBlock |-> nextBlock, at |-> <<>>]
    ELSE LET e  == events[i]
             nb == e.blockNumber + 1
         IN  IF e.args.gameId # gameId \/ e.args.playerIndex # playerIndex
             THEN turnLoop(events, i + 1, gameId, playerIndex, nb)
             ELSE [state |-> e.args.state, nextBlock |-> nb,
                   at |-> <<e.blockNumber, e.logIndex>>]

\* checkPlayerTurn: the returned pair [state, nextBlock]; at is the place of the
\* returned event in the chain (not part of the return value).
checkPlayerTurn(gameId, playerIndex, nextBlock) ==
    turnLoop(queryFilter(nextBlock), 1, gameId, playerIndex, nextBlock)

MineBlock ==
    /\ Len(blocks) < MaxBlocks
    /\ \E evs \in BlockContents : blocks' = Append(blocks, evs)
    /\ UNCHANGED <<storage, history, lastCall, poller, delivered>>

CheckPlayerTurn ==
    LET r == checkPlayerTurn(poller.gameId, poller.playerIndex, poller.nextBlock)
    IN  /\ poller' = [poller EXCEPT !.nextBlock = r.nextBlock]
        /\ delivered' = IF r.state # NOT_TURN THEN Append(delivered, r.at) ELSE delivered
        /\ lastCall' = [op |-> "checkPlayerTurn", res |-> Ok, state |-> r.state,
                        nextBlock |-> r.nextBlock]
        /\ UNCHANGED <<storage, history, blocks>>

PollInit ==
    /\ InitContract
    /\ blocks = <<>>
    /\ poller \in [gameId : GameIds, playerIndex : PlayerIdxs, nextBlock : {0}]
    /\ delivered = <<>>

PollNext ==
    \/ MineBlock
    \/ CheckPlayerTurn

\* The client calls checkPlayerTurn again and again: a call that would change
\* anything is eventually made.
PollSpec == PollInit /\ [][PollNext]_vars /\ WF_vars(CheckPlayerTurn)

(***************************************************************************)
(* Properties.  Every step of a run is one external call, and lastCall'    *)
(* describes it: a property of a call is a property of the step that       *)
(* makes it, read between the storage before and after the step.           *)
(***************************************************************************)

\* C1: a shuffle is accepted only in the shuffle phase and only for the account
\* stored at playerAddr[playerIndexes[gameId]]; a shuffle that is rejected with
\* "Not your turn yet" leaves the whole storage (state, turn, deck) unchanged.
ShuffleTurnEnforced ==
    [][ lastCall'.op = "shuffle" =>
          /\ lastCall'.res = Ok =>
               /\ states[lastCall'.gameId] = ShufflingDeck
               /\ lastCall'.account =
                     playerAddr[lastCall'.gameId][playerIndexes[lastCall'.gameId] + 1]
          /\ lastCall'.res = "Not your turn yet" => UNCHANGED <<storage, history>>
      ]_vars

\* A shuffle was rejected for the turn while the only game in the shuffle phase has
\* both accounts registered: the caller was the registered player whose turn it is not.
ShuffleOutOfTurnRejected ==
    /\ lastCall = [op |-> "shuffle", res |-> "Not your turn yet"]
    /\ \E g \in GameIds :
          /\ states[g] = ShufflingDeck
          /\ playerAddr[g] = <<"p1", "p2">>
          /\ \A h \in GameIds \ {g} : states[h] # ShufflingDeck

\* C2: after setGameSettings(n, g) exactly n registers are accepted for g: an
\* accepted register either leaves the game in Registration with fewer than
\* numPlayers players registered since the setup, or is the numPlayers-th one and
\* moves the game to the shuffle phase with the turn at 0.
RegisterExactlyNumPlayers ==
    (lastCall.op = "register" /\ lastCall.res = Ok /\ setups[lastCall.gameId] > 0) =>
        \/ /\ states[lastCall.gameId] = Registration
           /\ playerIndexes[lastCall.gameId] < numPlayers[lastCall.gameId]
        \/ /\ states[lastCall.gameId] = ShufflingDeck
           /\ playerIndexes[lastCall.gameId] = 0

\* C3: when a game is in the dealing phase, exactly numPlayers shuffles were
\* accepted for it, the k-th of them made by the k-th registered player at turn
\* k - 1, and the turn is back at 0.
ShufflesInRegistrationOrder ==
    \A g \in GameIds :
        states[g] = DealingCard =>
            /\ Len(shuffleLog[g]) = numPlayers[g]
            /\ \A k \in 1 .. Len(shuffleLog[g]) :
                  /\ shuffleLog[g][k].account = playerAddr[g][k]
                  /\ shuffleLog[g][k].turn = k - 1
            /\ playerIndexes[g] = 0

\* C4: a shuffle is accepted only with a proof of the statement built from the
\* stored deck, the aggregated key and the submitted deck; a shuffle whose proof
\* the verifier rejects leaves the whole storage (state, turn, deck) unchanged.
RejectedShuffleProofNoChange ==
    [][ lastCall'.op = "shuffle" =>
          /\ lastCall'.res = Ok =>
               /\ lastCall'.proof.ok
               /\ lastCall'.proof.stmt =
                     shuffleSignals(lastCall'.nonce, aggregatedPk[lastCall'.gameId],
                                    decks[lastCall'.gameId], lastCall'.deck)
          /\ lastCall'.res = "InvalidProof" => UNCHANGED <<storage, history>>
      ]_vars

\* A shuffle was rejected by the verifier while a game waits for a shuffle.
ShuffleProofRejected ==
    /\ lastCall = [op |-> "shuffle", res |-> "InvalidProof"]
    /\ \E g \in GameIds : states[g] = ShufflingDeck /\ decks[g] = InitDeckValue

\* C5: a deal for (card i, player j) is accepted only while bit j of record[i] is
\* clear and no deal for the pair was accepted before; a deal rejected as a double
\* deal leaves the whole storage (record[i], cards[i]) unchanged.
DoubleDealRejected ==
    [][ lastCall'.op = "deal" =>
          /\ lastCall'.res = Ok =>
               /\ Bit(cardDeals[lastCall'.gameId].record[lastCall'.cardIdx],
                      lastCall'.playerIdx) = 0
               /\ ~ \E e \in dealLog :
                       /\ e.gameId = lastCall'.gameId
                       /\ e.cardIdx = lastCall'.cardIdx
                       /\ e.playerIdx = lastCall'.playerIdx
          /\ lastCall'.res = "detected double dealing the same card" =>
               UNCHANGED <<storage, history>>
      ]_vars

\* A deal was rejected as a double deal.
SecondDealRejected ==
    /\ lastCall = [op |-> "deal", res |-> "detected double dealing the same card"]
    /\ dealLog # {}

\* C6: a deal whose decryption proof is rejected leaves the whole storage
\* unchanged, cards[i] and record[i] of a card not dealt before included.
RejectedDealProofNoChange ==
    [][ lastCall' = [op |-> "deal", res |-> "InvalidProof"] =>
          UNCHANGED <<storage, history>> ]_vars

\* The proof of a first deal was rejected: one game is in the dealing phase, with
\* no share recorded for any card and every cards[i] still zero.
FirstDealProofRejected ==
    /\ lastCall = [op |-> "deal", res |-> "InvalidProof"]
    /\ \E g \in GameIds :
          /\ states[g] = DealingCard
          /\ cardDeals[g] = ZeroCardDeal
          /\ \A h \in GameIds \ {g} : states[h] # DealingCard

\* The number of bits set in v.
RECURSIVE PopCount(_)
PopCount(v) == IF v = 0 THEN 0 ELSE (v % 2) + PopCount(v \div 2)

\* An accepted deal of player j of game g for card i is on record.
ShareAccepted(g, i, j) ==
    \E e \in dealLog : e.gameId = g /\ e.cardIdx = i /\ e.playerIdx = j

\* Every one of the numPlayers players of game g had a share accepted for card i.
AllSharesAccepted(g, i) ==
    \A j \in 0 .. (numPlayers[g] - 1) : ShareAccepted(g, i, j)

\* The sum of the secret keys of the first n registered players of game g.
RECURSIVE SumSk(_, _)
SumSk(g, n) == IF n = 0 THEN 0 ELSE SumSk(g, n - 1) + SkOf(playerAddr[g][n])

\* The plaintext point under slot i of the deck of game g: the ciphertext
\* decrypted with the keys of all numPlayers players.
SlotPlaintext(g, i) ==
    LET Y == prepareDecryptData(decks[g], i)
    IN  DecryptShare(Y, SumSk(g, numPlayers[g]))

\* Card i of game g is fully decrypted.
FullyDecrypted(g, i) ==
    /\ AllSharesAccepted(g, i)
    /\ Len(playerAddr[g]) >= numPlayers[g]
    /\ <<cardDeals[g].cards[i].X1, cardDeals[g].cards[i].Y1>> = SlotPlaintext(g, i)

\* C7: record[i] has at most numPlayers bits set, and bit j is set only if a deal
\* for card i was accepted with curPlayerIdx = j from the address registered at
\* index j, verified against the public key registered at index j.
RecordBitsFromPlayers ==
    \A g \in GameIds, i \in CardIdx :
        /\ PopCount(cardDeals[g].record[i]) <= numPlayers[g]
        /\ \A j \in 0 .. MaxRegs :
              Bit(cardDeals[g].record[i], j) = 1 =>
                  /\ j < Len(playerAddr[g])
                  /\ \E e \in dealLog :
                        /\ e.gameId = g /\ e.cardIdx = i /\ e.playerIdx = j
                        /\ e.account = playerAddr[g][j + 1]
                        /\ e.pk = <<playerPk[g][2 * j + 1], playerPk[g][2 * j + 2]>>

\* C8: in a game of at least one player (gameId other than 0, which initDeck
\* reserves), record[i] = (1 << numPlayers) - 1 exactly when card i is fully
\* decrypted: every player's share was accepted for it and (X1, Y1) of cards[i]
\* is the plaintext point of the card.
RecordFullIffDecrypted ==
    \A g \in GameIds \ {0}, i \in CardIdx :
        numPlayers[g] >= 1 =>
            ( cardDeals[g].record[i] = Pow2(numPlayers[g]) - 1
              <=> FullyDecrypted(g, i) )

\* C9: search returns a value only for a card that was dealt and for which every
\* player of the game had a share accepted.
SearchOnlyFullyDecrypted ==
    \A g \in GameIds, i \in CardIdx :
        search(i, g).res = Ok =>
            /\ cardDeals[g].record[i] # 0
            /\ AllSharesAccepted(g, i)

\* C10: in a game (gameId other than 0) that was set up once, in which all players
\* registered and shuffled and all had a share accepted for card i, search(i, g)
\* returns an index of the initial deck and not INVALID_CARD_INDEX.
SearchResolvesDecryptedCard ==
    \A g \in GameIds \ {0}, i \in CardIdx :
        ( /\ setups[g] = 1
          /\ numPlayers[g] >= 1
          /\ Len(playerAddr[g]) = numPlayers[g]
          /\ states[g] = DealingCard
          /\ AllSharesAccepted(g, i) )
        => /\ search(i, g).res = Ok
           /\ search(i, g).value \in CardIdx

\* Game g (gameId other than 0) was set up once and played by its numPlayers
\* registered players up to the dealing phase.
FullGame(g) ==
    /\ g # 0
    /\ setups[g] = 1
    /\ numPlayers[g] >= 1
    /\ Len(playerAddr[g]) = numPlayers[g]
    /\ states[g] = DealingCard

\* C11: in a full game two different fully decrypted card slots never resolve
\* (by search) to the same value, and when all slots are fully decrypted the
\* resolved values are exactly the indices 0 .. NumCards - 1 of the initial deck.
ShuffleIsPermutation ==
    \A g \in GameIds :
        FullGame(g) =>
            /\ \A i, k \in CardIdx :
                  (i # k /\ AllSharesAccepted(g, i) /\ AllSharesAccepted(g, k)) =>
                      search(i, g).value # search(k, g).value
            /\ (\A i \in CardIdx : AllSharesAccepted(g, i)) =>
                  {search(i, g).value : i \in CardIdx} = CardIdx

\* C12: a register whose public key is not on the curve is rejected ("Invalid
\* public key") and leaves the whole storage unchanged; an accepted register
\* carries a key on the curve, and every key stored for a player is on the curve.
OffCurveKeyRejected ==
    [][ /\ lastCall'.op = "register" =>
             /\ lastCall'.res = Ok => isOnCurve(lastCall'.pk[1], lastCall'.pk[2])
             /\ lastCall'.res = "Invalid public key" => UNCHANGED <<storage, history>>
        /\ \A g \in GameIds : \A k \in 1 .. Len(playerAddr'[g]) :
             isOnCurve(playerPk'[g][2 * k - 1], playerPk'[g][2 * k])
      ]_vars

\* A register was rejected for its key while a game in Registration already has a
\* registered player.
OffCurveRegisterRejected ==
    /\ lastCall = [op |-> "register", res |-> "Invalid public key"]
    /\ \E g \in GameIds : states[g] = Registration /\ Len(playerAddr[g]) = 1

\* C13: while a game is in the shuffle or the dealing phase, aggregatedPk is the
\* left fold by pointAdd of the public keys of all players registered for it.
AggregatedPkIsSumOfPlayers ==
    \A g \in GameIds :
        states[g] \in {ShufflingDeck, DealingCard} =>
            aggregatedPk[g] = aggregate(playerPk[g], Len(playerAddr[g]))

\* The registration of game g was closed at some time: aggregatedPk is written
\* only then, and with a key on the curve it is never <<0, 0>> afterwards.
RegistrationClosedOnce(g) == aggregatedPk[g] # <<0, 0>>

\* C14: once the numPlayers-th player has registered, no step changes the
\* player list (addresses and public keys) or aggregatedPk of the game.
PlayersImmutableAfterClose ==
    [][ \A g \in GameIds :
          RegistrationClosedOnce(g) =>
              /\ playerAddr'[g] = playerAddr[g]
              /\ playerPk'[g] = playerPk[g]
              /\ aggregatedPk'[g] = aggregatedPk[g]
      ]_vars

\* C15: the state of a game only moves forward along Registration -> shuffle
\* phase -> dealing phase: no step moves a game that has left Registration
\* backwards.
StateOnlyMovesForward ==
    [][ \A g \in GameIds :
          /\ states[g] = ShufflingDeck => states'[g] \in {ShufflingDeck, DealingCard}
          /\ states[g] = DealingCard => states'[g] = DealingCard
      ]_vars

\* C16: a shuffle is accepted only while the game is in the shuffle phase, and a
\* shuffle rejected with "Not in shuffle phase" leaves the whole storage unchanged.
ShuffleOnlyInShufflePhase ==
    [][ lastCall'.op = "shuffle" =>
          /\ lastCall'.res = Ok => states[lastCall'.gameId] = ShufflingDeck
          /\ lastCall'.res = "Not in shuffle phase" => UNCHANGED <<storage, history>>
      ]_vars

\* A shuffle was rejected for the phase while every game is in the dealing phase.
ShuffleAfterDealRejected ==
    /\ lastCall = [op |-> "shuffle", res |-> "Not in shuffle phase"]
    /\ \A g \in GameIds : states[g] = DealingCard

\* C17: a deal is accepted only while the game is in the dealing phase, which it
\* entered by numPlayers accepted shuffles; a deal rejected for the phase leaves
\* the whole storage unchanged.
DealOnlyInDealingPhase ==
    [][ lastCall'.op = "deal" =>
          /\ lastCall'.res = Ok =>
               /\ states[lastCall'.gameId] = DealingCard
               /\ numPlayers[lastCall'.gameId] >= 1
               /\ Len(shuffleLog[lastCall'.gameId]) >= numPlayers[lastCall'.gameId]
          /\ lastCall'.res = "Contract must be in dealing phase to call this function" =>
               UNCHANGED <<storage, history>>
      ]_vars

\* A deal was rejected for the phase while every game is in the shuffle phase.
DealBeforeShufflesRejected ==
    /\ lastCall = [op |-> "deal",
                   res |-> "Contract must be in dealing phase to call this function"]
    /\ \A g \in GameIds : states[g] = ShufflingDeck

\* C18: a deal is accepted only when its curPlayerIdx equals the turn index
\* playerIndexes of the game.
DealOnlyByTurnPlayer ==
    [][ (lastCall'.op = "deal" /\ lastCall'.res = Ok) =>
            lastCall'.playerIdx = playerIndexes[lastCall'.gameId]
      ]_vars

\* The turn index of game g moves on by one, or wraps around numPlayers.
TurnAdvances(g) ==
    \/ playerIndexes'[g] = playerIndexes[g] + 1
    \/ /\ numPlayers[g] >= 1
       /\ playerIndexes'[g] = (playerIndexes[g] + 1) % numPlayers[g]

\* C19: every accepted register, shuffle or deal advances the turn index of its
\* game (by one, or back to 0 after the last player).
EveryWriteAdvancesTurn ==
    [][ (lastCall'.op \in {"register", "shuffle", "deal"} /\ lastCall'.res = Ok) =>
            TurnAdvances(lastCall'.gameId)
      ]_vars

\* C20: a game none of whose cards is still lacking a share of one of its
\* players is no longer in the dealing phase.
DealEndsWhenAllDecrypted ==
    \A g \in GameIds :
        (FullGame(g) /\ \A i \in CardIdx : FullyDecrypted(g, i)) =>
            states[g] # DealingCard

\* C21: a register rejected for its public key, and a shuffle or deal rejected
\* for its proof, leaves some game in a state other than Registration,
\* ShufflingDeck and DealingCard (the error state).
RejectedSubmissionEndsGame ==
    [][ lastCall'.res \in {"Invalid public key", "InvalidProof"} =>
            \E g \in GameIds : states'[g] \notin {Registration, ShufflingDeck, DealingCard}
      ]_vars

\* record[i] of game g has the bit of every one of the numPlayers players set.
RecordFull(g, i) ==
    /\ numPlayers[g] >= 1
    /\ \A j \in 0 .. (numPlayers[g] - 1) : Bit(cardDeals[g].record[i], j) = 1

\* C22: once record[i] of a game has the bit of every player set, no deal on
\* card i is accepted and cards[i] and record[i] stay as they are.
FullyDecryptedCardFrozen ==
    [][ /\ (lastCall'.op = "deal" /\ lastCall'.res = Ok) =>
              ~RecordFull(lastCall'.gameId, lastCall'.cardIdx)
        /\ \A g \in GameIds : \A i \in CardIdx :
              RecordFull(g, i) =>
                  /\ cardDeals'[g].cards[i] = cardDeals[g].cards[i]
                  /\ cardDeals'[g].record[i] = cardDeals[g].record[i]
      ]_vars

\* C23: the register that closes the registration of a game leaves the deck of
\* that game equal to the fixed initial deck, and the reference deck of search
\* is that same deck whenever a game has closed its registration.
InitialDeckSameForAllGames ==
    [][ (lastCall'.op = "register" /\ lastCall'.res = Ok
            /\ states'[lastCall'.gameId] = ShufflingDeck) =>
            /\ decks'[lastCall'.gameId] = InitDeckValue
            /\ initialDeck' = InitDeckValue
      ]_vars

\* The registration of game g has completed: numPlayers keys are in the list
\* and the stored aggregated key is the fold of the first numPlayers of them.
NthPlayerRegistered(g) ==
    /\ numPlayers[g] >= 1
    /\ Len(playerAddr[g]) >= numPlayers[g]
    /\ aggregatedPk[g] = aggregate(playerPk[g], numPlayers[g])

\* C24: queryAggregatedPk and queryDeck revert for a game in registration, and
\* when they return, the numPlayers-th player of the game has registered and the
\* value is the stored aggregated key, respectively the stored deck.
QueriesOnlyAfterRegistration ==
    \A g \in GameIds :
        /\ states[g] = Registration =>
              (queryAggregatedPk(g).res # Ok /\ queryDeck(g).res # Ok)
        /\ queryAggregatedPk(g).res = Ok =>
              (NthPlayerRegistered(g) /\ queryAggregatedPk(g).value = aggregatedPk[g])
        /\ queryDeck(g).res = Ok =>
              (NthPlayerRegistered(g) /\ queryDeck(g).value = decks[g])

\* One game has one of its two players registered and both queries revert for
\* it, while the other game has closed its registration and both queries return.
QueryDuringAndAfterRegistration ==
    \E g, h \in GameIds :
        /\ numPlayers[g] = 2 /\ Len(playerAddr[g]) = 1 /\ states[g] = Registration
        /\ queryAggregatedPk(g).res = "aggregated pk is not ready"
        /\ queryDeck(g).res = "deck is not ready"
        /\ states[h] = ShufflingDeck
        /\ queryAggregatedPk(h).res = Ok /\ queryDeck(h).res = Ok

\* The client of game g can build a shuffle: the key and the deck are on the curve.
CanShuffle(g) ==
    /\ states[g] = ShufflingDeck
    /\ aggregatedPk[g] \in CurvePts
    /\ DeckOnCurve(decks[g])

ShuffleFrame ==
    [][ (lastCall'.op = "shuffle" /\ lastCall'.res = Ok) =>
            LET g    == lastCall'.gameId
                last == playerIndexes[g] + 1 = numPlayers[g]
            IN  /\ \A i \in CardIdx : /\ decks'[g].X0[i] = lastCall'.deck.X0[i]
                                      /\ decks'[g].X1[i] = lastCall'.deck.X1[i]
                /\ decks'[g].Selector = lastCall'.deck.Selector
                /\ \A h \in GameIds \ {g} : /\ decks'[h] = decks[h]
                                            /\ states'[h] = states[h]
                                            /\ playerIndexes'[h] = playerIndexes[h]
                /\ playerIndexes'[g] = IF last THEN 0 ELSE playerIndexes[g] + 1
                /\ states'[g] = IF last THEN DealingCard ELSE ShufflingDeck
                /\ UNCHANGED <<gameContract, numPlayers, initialDeck, cardDeals,
                               playerAddr, playerPk, aggregatedPk>>
      ]_vars

\* The last shuffle of a two-player game was accepted.
LastShuffleAccepted ==
    /\ lastCall.op = "shuffle" /\ lastCall.res = Ok
    /\ numPlayers[lastCall.gameId] = 2
    /\ states[lastCall.gameId] = DealingCard
    /\ playerIndexes[lastCall.gameId] = 0
    /\ decks[lastCall.gameId] = lastCall.deck

\* The sum of the secret keys of the players whose bit is set in rec, among the
\* first n registered players of game g.
RECURSIVE SumSkOfBits(_, _, _)
SumSkOfBits(g, rec, n) ==
    IF n = 0 THEN 0
    ELSE SumSkOfBits(g, rec, n - 1)
            + (IF Bit(rec, n - 1) = 1 THEN SkOf(playerAddr[g][n]) ELSE 0)

\* cards[i] of game g holds the first point of slot i of the deck, and as second
\* point the one of the slot minus the shares of the players on record.
SharesApplied(g, i) ==
    LET Y == prepareDecryptData(decks[g], i)
        c == cardDeals[g].cards[i]
    IN  /\ <<c.X0, c.Y0>> = <<Y[1], Y[2]>>
        /\ <<c.X1, c.Y1>> =
              DecryptShare(Y, SumSkOfBits(g, cardDeals[g].record[i], Len(playerAddr[g])))

\* C28: whatever the order the shares of a card were accepted in, cards[i] was
\* initialised from the compressed deck by the first of them and holds the slot
\* decrypted by exactly the players on record; with every player on record that
\* is the plaintext point of the card.
SharesInAnyOrder ==
    \A g \in GameIds, i \in CardIdx :
        (states[g] = DealingCard /\ cardDeals[g].record[i] # 0) => SharesApplied(g, i)

\* decompressEC over every x of the field, every delta up to Q and the selectors
\* 0, 1 and 2: it succeeds exactly when delta <= (Q - 1) / 2, (x, delta) is on
\* the curve and the selector is 0 or 1, and then returns delta for selector 1
\* and Q - delta for selector 0.
decompressECAsSpecified ==
    \A x \in Fq : \A delta \in 0 .. Q : \A sel \in 0 .. 2 :
        LET r == decompressEC(x, delta, sel)
        IN  /\ r.res = Ok <=> (delta <= HalfQ /\ isOnCurve(x, delta) /\ sel \in {0, 1})
            /\ r.res = Ok => r.y = IF sel = 1 THEN delta ELSE Q - delta

\* The initDelta values tried on a deal: the client's own and the spoiled ones.
DeltasTried(initDelta) ==
    {initDelta, deltaHigh(initDelta), deltaOff(initDelta),
     <<initDelta[1], Q - initDelta[2]>>, <<(initDelta[1] + 1) % (HalfQ + 1), initDelta[2]>>}

\* C29: decompressEC is as specified; a first deal of a card that the client's
\* own initDelta gets accepted is rejected, with cardDeals as it was, for every
\* spoiled initDelta, and an accepted first deal has both deltas decompress; a
\* later deal of a card has the same outcome and writes for every initDelta.
DecompressOnFirstDealOnly ==
    /\ decompressECAsSpecified
    /\ \A g \in GameIds : states[g] = DealingCard =>
         \A i \in CardIdx, a \in Accounts, j \in PlayerIdxs :
            LET sub  == clientDeal(a, g, i)
                res0 == dealCheck(GameC, a, i, j, sub.proof, sub.share, sub.initDelta, g)
            IN  \A d \in DeltasTried(sub.initDelta) :
                  LET res == dealCheck(GameC, a, i, j, sub.proof, sub.share, d, g)
                  IN  IF cardDeals[g].record[i] = 0
                      THEN /\ res = Ok => decompressCard(i, d, g).res = Ok
                           /\ (res0 = Ok /\ d # sub.initDelta) =>
                                 /\ res \in {"Ill-formated delta", "Not on baby jubjub curve"}
                                 /\ dealStorage(res, i, j, sub.share, d, g) = cardDeals[g]
                      ELSE /\ res = res0
                           /\ dealStorage(res, i, j, sub.share, d, g)
                                 = dealStorage(res0, i, j, sub.share, sub.initDelta, g)

\* A first deal was rejected for its initDelta, in a game with a card that one
\* player has dealt and the other has not.
SpoiledDeltaRejected ==
    /\ lastCall.op = "deal"
    /\ lastCall.res \in {"Ill-formated delta", "Not on baby jubjub curve"}
    /\ \E g \in GameIds : /\ FullGame(g) /\ numPlayers[g] = 2
                          /\ cardDeals[g].record[0] = 1
                          /\ cardDeals[g].record[1] = 0

\* C30: pointAdd returns P for (P, (0, 0)) and for ((0, 0), P).
PointAddZeroIsIdentity ==
    lastCall.op = "pointAdd" =>
        /\ lastCall.p2 = <<0, 0>> => lastCall.point = lastCall.p1
        /\ lastCall.p1 = <<0, 0>> => lastCall.point = lastCall.p2

\* C31 as stated: pointAdd(P, neg(P)) returns (0, 0) for every P on the curve.
PointAddNegIsZeroPair ==
    (lastCall.op = "pointAdd" /\ lastCall.p1 \in CurvePts /\ lastCall.p2 = neg(lastCall.p1))
        => lastCall.point = <<0, 0>>

\* C31, amended: pointAdd(P, neg(P)) returns (0, 1), the neutral element of the
\* twisted Edwards curve, for every P on the curve.
PointAddNegIsNeutral ==
    (lastCall.op = "pointAdd" /\ lastCall.p1 \in CurvePts /\ lastCall.p2 = neg(lastCall.p1))
        => lastCall.point = <<0, 1>>

\* pointAdd was called with the base point and its negative.
PointAddBase8AndNeg ==
    /\ lastCall.op = "pointAdd"
    /\ lastCall.p1 = Base8
    /\ lastCall.p2 = neg(Base8)
    /\ lastCall.point = Neutral

\* The deltas a caller can pass to deal.
DeltaPairs == (0 .. Q) \X (0 .. Q)

\* C32: an accepted deal on card i of game g changes only cards[i] and record[i] of
\* g.  Bit curPlayerIdx is set in record[i] and (X1, Y1) of cards[i] becomes the
\* submitted share; on the first deal of the card (record[i] was 0) X0 is copied
\* from the deck and Y0 is the decompressed coordinate, on a later deal (X0, Y0)
\* stay; the decks, the turn indexes, the states, the players, the keys, every
\* other card of g and every other game are left unchanged.
DealFrame ==
    [][ (lastCall'.op = "deal" /\ lastCall'.res = Ok) =>
          LET g == lastCall'.gameId
              i == lastCall'.cardIdx
              j == lastCall'.playerIdx
              old == cardDeals[g]
              new == cardDeals'[g]
          IN  /\ UNCHANGED <<gameContract, numPlayers, decks, initialDeck, playerAddr,
                             playerPk, aggregatedPk, playerIndexes, states>>
              /\ \A h \in GameIds \ {g} : cardDeals'[h] = cardDeals[h]
              /\ \A k \in CardIdx \ {i} :
                    /\ new.cards[k] = old.cards[k]
                    /\ new.record[k] = old.record[k]
              /\ new.record[i] = SetBit(old.record[i], j)
              /\ new.cards[i].X1 = lastCall'.decryptedCard[1]
              /\ new.cards[i].Y1 = lastCall'.decryptedCard[2]
              /\ old.record[i] # 0 =>
                    /\ new.cards[i].X0 = old.cards[i].X0
                    /\ new.cards[i].Y0 = old.cards[i].Y0
              /\ old.record[i] = 0 =>
                    /\ new.cards[i].X0 = decks[g].X0[i]
                    /\ \E d \in DeltaPairs :
                          /\ decompressCard(i, d, g).res = Ok
                          /\ new.cards[i].Y0 = decompressCard(i, d, g).Y[1]
      ]_vars

\* A second share of a card was accepted: the last call is an accepted deal on a
\* card whose record has two bits set, and (X1, Y1) is the share of that call.
SecondShareWritten ==
    /\ lastCall.op = "deal" /\ lastCall.res = Ok
    /\ PopCount(cardDeals[lastCall.gameId].record[lastCall.cardIdx]) = 2
    /\ cardDeals[lastCall.gameId].cards[lastCall.cardIdx].X1 = lastCall.decryptedCard[1]
    /\ cardDeals[lastCall.gameId].cards[lastCall.cardIdx].X0 # lastCall.decryptedCard[1]

\* The state-changing operations of the state machine.
GameOps == {"setGameSettings", "register", "shuffle", "deal"}

\* C33: setGameSettings, register, shuffle and deal are accepted only when the
\* caller is the configured game contract, a rejected call of them changes
\* nothing, and the configured address changes only in an accepted
\* setGameContract, which only the owner can make.
OnlyGameContractChangesState ==
    [][ /\ (lastCall'.op \in GameOps /\ lastCall'.res = Ok) =>
              lastCall'.sender = gameContract
        /\ (lastCall'.op \in GameOps /\ lastCall'.res # Ok) =>
              UNCHANGED <<storage, history>>
        /\ lastCall'.op = "setGameContract" =>
              IF lastCall'.res = Ok
              THEN lastCall'.sender = Owner
              ELSE UNCHANGED <<storage, history>>
        /\ gameContract' # gameContract =>
              (lastCall'.op = "setGameContract" /\ lastCall'.res = Ok)
      ]_vars

\* A deal sent by another address than the game contract was rejected for its
\* caller, in a game that is in the dealing phase.
ForeignDealRejected ==
    /\ gameContract = GameC
    /\ lastCall = [op |-> "deal", res |-> "Caller is not game contract"]
    /\ \E g \in GameIds : states[g] = DealingCard

\* What can be observed of game h: its fields and the results of search.
Observable(h) ==
    << states[h], playerIndexes[h], numPlayers[h], playerAddr[h], playerPk[h],
       aggregatedPk[h], decks[h], cardDeals[h], [i \in CardIdx |-> search(i, h)] >>

\* C34: a call of setGameSettings, register, shuffle or deal on game g changes
\* nothing that can be observed of another game h: its state, turn, players,
\* aggregated key, deck, deal records and the results of search on h stay as
\* they were, for every pair of gameIds, 0 included.
GamesIsolated ==
    [][ (lastCall'.op \in GameOps /\ lastCall'.res = Ok) =>
          \A h \in GameIds \ {lastCall'.gameId} : Observable(h)' = Observable(h)
      ]_vars

\* The fields of the other games stay as they are in every accepted call: what a
\* call on game g changes of game h is confined to the results of search.
OtherGameFieldsKept ==
    [][ (lastCall'.op \in GameOps /\ lastCall'.res = Ok) =>
          \A h \in GameIds \ {lastCall'.gameId} :
              /\ states'[h] = states[h] /\ playerIndexes'[h] = playerIndexes[h]
              /\ numPlayers'[h] = numPlayers[h] /\ playerAddr'[h] = playerAddr[h]
              /\ playerPk'[h] = playerPk[h] /\ aggregatedPk'[h] = aggregatedPk[h]
              /\ decks'[h] = decks[h] /\ cardDeals'[h] = cardDeals[h]
      ]_vars

\* The deck and the key a shuffle proof was generated against: the input deck and
\* the aggregated key among its public signals.
ProofDeck(proof) ==
    [X0 |-> slice(proof.stmt, 3, 3 + NumCards),
     X1 |-> slice(proof.stmt, 3 + NumCards, 3 + NumCards * 2),
     Selector |-> << at(proof.stmt, 3 + NumCards * 4), at(proof.stmt, 4 + NumCards * 4) >>]
ProofPk(proof) == << at(proof.stmt, 1), at(proof.stmt, 2) >>

\* An accepted shuffle carries a proof generated against the deck and the
\* aggregated key that are stored when it is called.
AcceptedProofMatchesStorage ==
    (lastCall'.op = "shuffle" /\ lastCall'.res = Ok) =>
        /\ ProofDeck(lastCall'.proof) = decks[lastCall'.gameId]
        /\ ProofPk(lastCall'.proof) = aggregatedPk[lastCall'.gameId]

\* A proof accepted before in the game is accepted again only when the shuffle
\* it proves leaves the deck as it is.
AcceptedProofNotAcceptedAgain ==
    (lastCall'.op = "shuffle" /\ lastCall'.res = Ok) =>
        \A k \in 1 .. Len(shuffleLog[lastCall'.gameId]) :
            shuffleLog[lastCall'.gameId][k].proof = lastCall'.proof =>
                decks'[lastCall'.gameId] = decks[lastCall'.gameId]

\* C35: an accepted shuffle carries a proof generated against the stored deck and
\* aggregated key of the moment of the call, and a shuffle proof that was
\* accepted once in a game is never accepted again in that game after the deck
\* has changed.
ShuffleBoundToChainState ==
    [][ AcceptedProofMatchesStorage /\ AcceptedProofNotAcceptedAgain ]_vars

\* The first half of C35 on its own.
ShuffleProofFromStoredDeck == [][ AcceptedProofMatchesStorage ]_vars

\* The second half of C35 in the games that were set up once.
NoReplayInGameSetUpOnce ==
    [][ (lastCall'.op = "shuffle" /\ lastCall'.res = Ok /\ setups[lastCall'.gameId] = 1) =>
            AcceptedProofNotAcceptedAgain ]_vars

ForPoller(b, k) ==
    /\ b <= Len(blocks) /\ k <= Len(blocks[b])
    /\ blocks[b][k].gameId = poller.gameId
    /\ blocks[b][k].playerIndex = poller.playerIndex
WasDelivered(b, k) == \E n \in 1 .. Len(delivered) : delivered[n] = <<b, k>>

\* Every delivered event is an event for the client, and the events are
\* delivered in emission order, none of them twice.
DeliveredInOrderOnce ==
    /\ \A n \in 1 .. Len(delivered) : ForPoller(delivered[n][1], delivered[n][2])
    /\ \A m, n \in 1 .. Len(delivered) :
          m < n => \/ delivered[m][1] < delivered[n][1]
                   \/ delivered[m][1] = delivered[n][1] /\ delivered[m][2] < delivered[n][2]

\* checkPlayerTurn returns NOT_TURN exactly when no event for the client is in
\* a block at or after nextBlock.
NotTurnIffNoEvent ==
    [][ lastCall'.op = "checkPlayerTurn" /\ blocks' = blocks =>
          (lastCall'.state = NOT_TURN <=>
              ~ \E b \in 1 .. MaxBlocks, k \in 1 .. MaxEventsPerBlock :
                    b >= poller.nextBlock /\ ForPoller(b, k)) ]_vars

\* Every event for the client is eventually delivered.
EveryEventDelivered ==
    \A b \in 1 .. MaxBlocks, k \in 1 .. MaxEventsPerBlock :
        ForPoller(b, k) ~> WasDelivered(b, k)

\* C37: a client that keeps calling checkPlayerTurn with the nextBlock it got
\* back eventually receives every PlayerTurn event of its (gameId, playerIndex),
\* exactly once and in emission order, however the events are placed into
\* blocks; and a call returns NOT_TURN exactly when no event for the client is
\* at or after nextBlock.
PollingDeliversEveryTurn ==
    /\ []DeliveredInOrderOnce
    /\ NotTurnIffNoEvent
    /\ EveryEventDelivered

\* The events the client has moved past have all been delivered to it.
PassedEventsDelivered ==
    \A b \in 1 .. MaxBlocks, k \in 1 .. MaxEventsPerBlock :
        (ForPoller(b, k) /\ b < poller.nextBlock) => WasDelivered(b, k)

\* The same with one event per block at most.
PassedEventsDeliveredOnePerBlock ==
    (\A b \in 1 .. Len(blocks) : Len(blocks[b]) <= 1) => PassedEventsDelivered

====
